---- MODULE Spec2Model ----
(***************************************************************************)
(* State-machine model of ambiant.go: the SoundPlayer object, the decode   *)
(* handles and files it opens, the speaker (audio-output device) it drives *)
(* and the tray menu's dispatch goroutine.                                 *)
(*                                                                         *)
(* A track path is identified with its index in sp.sounds; 0 stands for    *)
(* the empty string.  A decode handle is identified with its index in      *)
(* `handles`, the list of everything os.Open has returned so far; Nil (0)  *)
(* stands for a nil beep.StreamSeekCloser.                                 *)
(***************************************************************************)
EXTENDS Integers, Sequences, FiniteSets

\* ---------------------------------------------------------------- bounds
NumSounds == 2
MaxOpens == 2
MaxPending == 1

\* ------------------------------------------------------ program constants
VolumeInitial == 0
VolumeStartup == -2
VolumeLow == -3
VolumeMedium == -1
VolumeHigh == 0

Nil == 0

VARIABLES
    sp,            \* the SoundPlayer struct
    handles,       \* files / decode handles opened so far
    spk,           \* the speaker package: device initialised, mixer content
    calls,         \* calls on the libraries made by the latest SoundPlayer step
    op,            \* the latest SoundPlayer call of main or of the goroutine: its name,
                   \* argument and return, and (for the play that follows a
                   \* loadSound in the poll) what that loadSound returned
    pc,            \* position of main / of the dispatch goroutine
    idx,           \* loop index of the sound-selection poll (1-based)
    clicked,       \* primary menu items whose ClickedCh holds a click
    soundClicked,  \* sound menu items whose ClickedCh holds a click
    quit,          \* systray.Quit() has been called and onExit has yet to run
    scen           \* observer of the end-to-end scenario of the user's clicks

vars == <<sp, handles, spk, calls, op, pc, idx, clicked, soundClicked, quit, scen>>

sounds == [i \in 1..NumSounds |-> i]

PrimaryItems == {"play", "pause", "low", "medium", "high", "quit"}

LoadOutcomes == {"ok", "openErr", "decodeErr"}

\* ------------------------------------------------------------ the world
\* The operations below are functions from a world (player, handles, speaker,
\* call log) to a world; `ret` is the value the operation returns.

World == [sp |-> sp, handles |-> handles, spk |-> spk, calls |-> <<>>, ret |-> "nil"]

Call(fn, h, live, v) == [fn |-> fn, h |-> h, live |-> live, v |-> v]

IsOpen(hs, h) == h \in 1..Len(hs) /\ hs[h].open

Log(w, c) == [w EXCEPT !.calls = Append(@, c)]

\* beep.StreamSeekCloser.Close: closes the decoder and the file under it.
streamerClose(w, h) ==
    [Log(w, Call("Close", h, IsOpen(w.handles, h), 0)) EXCEPT !.handles[h].open = FALSE]

\* beep.StreamSeekCloser.Seek(0); its error is dropped by the caller.
streamerSeek(w, h) == Log(w, Call("Seek", h, IsOpen(w.handles, h), 0))

\* os.Open: on success a new open file, on failure nothing.
osOpen(w, filename, ok) ==
    IF ok
    THEN [Log(w, Call("Open", Len(w.handles) + 1, TRUE, 0)) EXCEPT
            !.handles = Append(@, [path |-> filename, decoded |-> FALSE, open |-> TRUE])]
    ELSE Log(w, Call("Open", Nil, TRUE, 0))

\* mp3.Decode(f): on success the file becomes a decode handle that owns it;
\* on failure the file is left as it is (open).
mp3Decode(w, f, ok) ==
    IF ok
    THEN [Log(w, Call("Decode", f, TRUE, 0)) EXCEPT !.handles[f].decoded = TRUE]
    ELSE Log(w, Call("Decode", f, TRUE, 0))

\* speaker.Init: closes the device if it was open, empties the mixer, then
\* opens the device, which can fail.
speakerInit(w, ok) ==
    [Log(w, Call("Init", Nil, TRUE, 0)) EXCEPT !.spk = [init |-> ok, mixer |-> <<>>]]

\* speaker.Play: adds the stream to the mixer.
speakerPlay(w, s) ==
    [Log(w, Call("Play", s.h, IsOpen(w.handles, s.h), s.vol)) EXCEPT
        !.spk.mixer = Append(@, s)]

\* speaker.Clear: removes every stream from the mixer.
speakerClear(w) ==
    [Log(w, Call("Clear", Nil, TRUE, 0)) EXCEPT !.spk.mixer = <<>>]

\* speaker.Close: releases the device.
speakerClose(w) ==
    [Log(w, Call("SpkClose", Nil, TRUE, 0)) EXCEPT !.spk.init = FALSE]

\* ---------------------------------------------------------- SoundPlayer

closeExisting(w) ==
    IF w.sp.currentStreamer # Nil THEN streamerClose(w, w.sp.currentStreamer) ELSE w

\* loadSound without its first three lines: the existing streamer is left open.
loadSound_NoClose(w, filename, outcome) ==
    LET w2 == osOpen(w, filename, outcome # "openErr")
        f  == Len(w2.handles)
        w3 == mp3Decode(w2, f, outcome = "ok")
    IN  IF outcome = "openErr" THEN [w2 EXCEPT !.ret = "openErr"]
        ELSE IF outcome = "decodeErr" THEN [w3 EXCEPT !.ret = "decodeErr"]
        ELSE [w3 EXCEPT !.sp.currentStreamer = f,
                        !.sp.format = filename,
                        !.sp.currentSound = filename,
                        !.ret = "nil"]

\* loadSound without `sp.currentSound = filename`.
loadSound_ForgetsName(w, filename, outcome) ==
    LET w1 == closeExisting(w)
        w2 == osOpen(w1, filename, outcome # "openErr")
        f  == Len(w2.handles)
        w3 == mp3Decode(w2, f, outcome = "ok")
    IN  IF outcome = "openErr" THEN [w2 EXCEPT !.ret = "openErr"]
        ELSE IF outcome = "decodeErr" THEN [w3 EXCEPT !.ret = "decodeErr"]
        ELSE [w3 EXCEPT !.sp.currentStreamer = f,
                        !.sp.format = filename,
                        !.ret = "nil"]

\* loadSound that also stops: `sp.isPlaying = false` on success.
loadSound_Stops(w, filename, outcome) ==
    LET w1 == closeExisting(w)
        w2 == osOpen(w1, filename, outcome # "openErr")
        f  == Len(w2.handles)
        w3 == mp3Decode(w2, f, outcome = "ok")
    IN  IF outcome = "openErr" THEN [w2 EXCEPT !.ret = "openErr"]
        ELSE IF outcome = "decodeErr" THEN [w3 EXCEPT !.ret = "decodeErr"]
        ELSE [w3 EXCEPT !.sp.currentStreamer = f,
                        !.sp.format = filename,
                        !.sp.currentSound = filename,
                        !.sp.isPlaying = FALSE,
                        !.ret = "nil"]

\* loadSound that records the name before it opens the file.
loadSound_NameEarly(w, filename, outcome) ==
    LET w1 == [closeExisting(w) EXCEPT !.sp.currentSound = filename]
        w2 == osOpen(w1, filename, outcome # "openErr")
        f  == Len(w2.handles)
        w3 == mp3Decode(w2, f, outcome = "ok")
    IN  IF outcome = "openErr" THEN [w2 EXCEPT !.ret = "openErr"]
        ELSE IF outcome = "decodeErr" THEN [w3 EXCEPT !.ret = "decodeErr"]
        ELSE [w3 EXCEPT !.sp.currentStreamer = f,
                        !.sp.format = filename,
                        !.ret = "nil"]

loadSound(w, filename, outcome) ==
    LET w1 == closeExisting(w)
        w2 == osOpen(w1, filename, outcome # "openErr")
        f  == Len(w2.handles)
        w3 == mp3Decode(w2, f, outcome = "ok")
    IN  IF outcome = "openErr" THEN [w2 EXCEPT !.ret = "openErr"]
        ELSE IF outcome = "decodeErr" THEN [w3 EXCEPT !.ret = "decodeErr"]
        ELSE [w3 EXCEPT !.sp.currentStreamer = f,
                        !.sp.format = filename,
                        !.sp.currentSound = filename,
                        !.ret = "nil"]

\* play without the `currentStreamer == nil` check.
play_NoNilCheck(w, initOk, streamErr) ==
    LET w1 == speakerInit(w, initOk)
        w2 == streamerSeek(w1, w.sp.currentStreamer)
        w3 == speakerPlay(w2, [h |-> w.sp.currentStreamer, vol |-> w.sp.volume])
    IN  IF ~initOk THEN [w1 EXCEPT !.ret = "initErr"]
        ELSE [w3 EXCEPT !.sp.isPlaying = TRUE,
                        !.ret = IF streamErr THEN "streamErr" ELSE "nil"]

\* play without the speaker.Init call.
play_NoInit(w, initOk, streamErr) ==
    IF w.sp.currentStreamer = Nil THEN [w EXCEPT !.ret = "noSound"]
    ELSE LET w2 == streamerSeek(w, w.sp.currentStreamer)
             w3 == speakerPlay(w2, [h |-> w.sp.currentStreamer, vol |-> w.sp.volume])
         IN  [w3 EXCEPT !.sp.isPlaying = TRUE,
                        !.ret = IF streamErr THEN "streamErr" ELSE "nil"]

play(w, initOk, streamErr) ==
    IF w.sp.currentStreamer = Nil THEN [w EXCEPT !.ret = "noSound"]
    ELSE LET w1 == speakerInit(w, initOk)
             w2 == streamerSeek(w1, w.sp.currentStreamer)
             w3 == speakerPlay(w2, [h |-> w.sp.currentStreamer, vol |-> w.sp.volume])
         IN  IF ~initOk THEN [w1 EXCEPT !.ret = "initErr"]
             ELSE [w3 EXCEPT !.sp.isPlaying = TRUE,
                             !.ret = IF streamErr THEN "streamErr" ELSE "nil"]

\* pause without `sp.isPlaying = false`.
pause_KeepsFlag(w) == [speakerClear(w) EXCEPT !.ret = "nil"]

pause(w) == [speakerClear(w) EXCEPT !.sp.isPlaying = FALSE, !.ret = "nil"]

\* setVolume that replays without pausing first.
setVolume_NoPause(w, vol, initOk, streamErr) ==
    LET w1 == [w EXCEPT !.sp.volume = vol]
    IN  IF w1.sp.isPlaying
        THEN [play(w1, initOk, streamErr) EXCEPT !.ret = "nil"]
        ELSE [w1 EXCEPT !.ret = "nil"]

\* setVolume that pauses and never replays.
setVolume_NoReplay(w, vol, initOk, streamErr) ==
    LET w1 == [w EXCEPT !.sp.volume = vol]
    IN  IF w1.sp.isPlaying
        THEN [pause(w1) EXCEPT !.ret = "nil"]
        ELSE [w1 EXCEPT !.ret = "nil"]

setVolume(w, vol, initOk, streamErr) ==
    LET w1 == [w EXCEPT !.sp.volume = vol]
    IN  IF w1.sp.isPlaying
        THEN [play(pause(w1), initOk, streamErr) EXCEPT !.ret = "nil"]
        ELSE [w1 EXCEPT !.ret = "nil"]

\* ------------------------------------------------------------- observer
\* `scen` follows the user through the end-to-end scenario: every operation
\* so far succeeded, and the clicks so far, each made while the dispatch loop
\* was waiting in its select with nothing left to receive, are a prefix of
\* Low, second sound, Pause, Quit.

Quiescent == pc = "select" /\ clicked = {}

ScenAfterStep(failed) == IF failed THEN "off" ELSE scen

ScenAfterClick(item) ==
    IF ~Quiescent THEN "off"
    ELSE IF scen = "started" /\ item = "low" THEN "low"
    ELSE IF scen = "low" /\ item = "sound2" THEN "sound"
    ELSE IF scen = "sound" /\ item = "pause" THEN "pause"
    ELSE IF scen = "pause" /\ item = "quit" THEN "quit"
    ELSE "off"

\* ------------------------------------------------------------------ Init
Init ==
    /\ sp = [currentSound |-> 0, currentStreamer |-> Nil, format |-> 0,
             isPlaying |-> FALSE, volume |-> VolumeInitial]
    /\ handles = <<>>
    /\ spk = [init |-> FALSE, mixer |-> <<>>]
    /\ calls = <<>>
    /\ op = [name |-> "new", arg |-> 0, ret |-> "nil", after |-> "-"]
    /\ pc = "loadFirst"
    /\ idx = 0
    /\ clicked = {}
    /\ soundClicked = {}
    /\ quit = FALSE
    /\ scen = "boot"

\* Commit the world an operation returns.
Commit(w, name, arg, after) ==
    /\ sp' = w.sp
    /\ handles' = w.handles
    /\ spk' = w.spk
    /\ calls' = w.calls
    /\ op' = [name |-> name, arg |-> arg, ret |-> w.ret, after |-> after]


\* ----------------------------------------------------- main, before Run
\* len(soundPlayer.sounds) > 0 holds of the compiled-in list; the three calls
\* of the startup block follow, their return values dropped.

StartLoad ==
    /\ pc = "loadFirst"
    /\ Len(sounds) > 0
    /\ \E outcome \in LoadOutcomes :
          /\ Commit(loadSound(World, sounds[1], outcome), "loadSound", 1, "-")
          /\ scen' = ScenAfterStep(outcome # "ok")
    /\ pc' = "setVolFirst"
    /\ UNCHANGED <<idx, clicked, soundClicked, quit>>

StartSetVolume ==
    /\ pc = "setVolFirst"
    /\ \E initOk \in BOOLEAN, streamErr \in BOOLEAN :
          /\ Commit(setVolume(World, VolumeStartup, initOk, streamErr), "setVolume", VolumeStartup, "-")
          /\ scen' = ScenAfterStep(sp.isPlaying /\ (~initOk \/ streamErr))
    /\ pc' = "playFirst"
    /\ UNCHANGED <<idx, clicked, soundClicked, quit>>

StartPlay ==
    /\ pc = "playFirst"
    /\ \E initOk \in BOOLEAN, streamErr \in BOOLEAN :
          LET w == play(World, initOk, streamErr)
          IN  /\ Commit(w, "play", 0, "-")
              /\ scen' = IF scen = "boot" /\ w.ret = "nil" THEN "started" ELSE "off"
    /\ pc' = "select"
    /\ UNCHANGED <<idx, clicked, soundClicked, quit>>

\* ------------------------------------------------------------- the user
\* A click on a menu item puts a signal on the item's ClickedCh, where it
\* stays until the dispatch goroutine receives it; a click on an item whose
\* channel already holds one is dropped.

MenuUp == pc \in {"select", "poll", "resume"}

Click ==
    /\ MenuUp
    /\ Cardinality(clicked) < MaxPending
    /\ \E item \in PrimaryItems \ clicked :
          /\ clicked' = clicked \cup {item}
          /\ scen' = ScenAfterClick(item)
    /\ UNCHANGED <<sp, handles, spk, calls, op, pc, idx, soundClicked, quit>>

ClickSound ==
    /\ MenuUp
    /\ Len(handles) + Cardinality(soundClicked) < MaxOpens
    /\ \E i \in (1..NumSounds) \ soundClicked :
          /\ soundClicked' = soundClicked \cup {i}
          /\ scen' = ScenAfterClick(IF i = 2 THEN "sound2" ELSE "sound")
    /\ UNCHANGED <<sp, handles, spk, calls, op, pc, idx, clicked, quit>>

\* ------------------------------------------------ the dispatch goroutine
\* One case of the first select: receive the item's click, make the call,
\* go on to the sound-selection poll.

Recv(item) ==
    /\ pc = "select"
    /\ item \in clicked
    /\ clicked' = clicked \ {item}
    /\ UNCHANGED soundClicked

ToPoll == pc' = "poll" /\ idx' = 1 /\ UNCHANGED quit

RecvPlay ==
    /\ Recv("play")
    /\ \E initOk \in BOOLEAN, streamErr \in BOOLEAN :
          LET w == play(World, initOk, streamErr)
          IN  /\ Commit(w, "play", 0, "-")
              /\ scen' = ScenAfterStep(w.ret # "nil")
    /\ ToPoll

RecvPause ==
    /\ Recv("pause")
    /\ Commit(pause(World), "pause", 0, "-")
    /\ scen' = ScenAfterStep(FALSE)
    /\ ToPoll

RecvVolume(item, vol) ==
    /\ Recv(item)
    /\ \E initOk \in BOOLEAN, streamErr \in BOOLEAN :
          /\ Commit(setVolume(World, vol, initOk, streamErr), "setVolume", vol, "-")
          /\ scen' = ScenAfterStep(sp.isPlaying /\ (~initOk \/ streamErr))
    /\ ToPoll

RecvVolumeLow == RecvVolume("low", VolumeLow)

RecvVolumeMedium == RecvVolume("medium", VolumeMedium)

RecvVolumeHigh == RecvVolume("high", VolumeHigh)

\* The quit case without its `return`: the loop goes on to the poll.
RecvQuit_NoReturn ==
    /\ Recv("quit")
    /\ quit' = TRUE
    /\ pc' = "poll"
    /\ idx' = 1
    /\ scen' = scen
    /\ UNCHANGED <<sp, handles, spk, calls, op>>

\* systray.Quit() and return: the goroutine ends, the shell runs onExit.
RecvQuit ==
    /\ Recv("quit")
    /\ quit' = TRUE
    /\ pc' = "exit"
    /\ idx' = 0
    /\ scen' = scen
    /\ UNCHANGED <<sp, handles, spk, calls, op>>

\* A poll that stops after its first item.
NextItem_OnlyFirst == pc' = "select" /\ idx' = 0

\* The end of one turn of `for i, item := range soundMenuItems`.
NextItem ==
    IF idx < NumSounds
    THEN pc' = "poll" /\ idx' = idx + 1
    ELSE pc' = "select" /\ idx' = 0

\* The default case of the inner select: no click on item idx.
PollDefault ==
    /\ pc = "poll"
    /\ idx \notin soundClicked
    /\ NextItem
    /\ UNCHANGED <<sp, handles, spk, calls, op, clicked, soundClicked, quit, scen>>

\* case <-item.ClickedCh: loadSound(sounds[i]); an error is logged.
PollLoad ==
    /\ pc = "poll"
    /\ idx \in soundClicked
    /\ soundClicked' = soundClicked \ {idx}
    /\ \E outcome \in LoadOutcomes :
          /\ Commit(loadSound(World, sounds[idx], outcome), "loadSound", idx, "-")
          /\ scen' = ScenAfterStep(outcome # "ok")
    /\ pc' = "resume"
    /\ UNCHANGED <<idx, clicked, quit>>

\* if soundPlayer.isPlaying { soundPlayer.play() }
PollResume ==
    /\ pc = "resume"
    /\ sp.isPlaying
    /\ \E initOk \in BOOLEAN, streamErr \in BOOLEAN :
          LET w == play(World, initOk, streamErr)
          IN  /\ Commit(w, "play", idx, op.ret)
              /\ scen' = ScenAfterStep(w.ret # "nil")
    /\ NextItem
    /\ UNCHANGED <<clicked, soundClicked, quit>>

PollNoResume ==
    /\ pc = "resume"
    /\ ~sp.isPlaying
    /\ NextItem
    /\ UNCHANGED <<sp, handles, spk, calls, op, clicked, soundClicked, quit, scen>>

\* ------------------------------------------------------------- onExit
\* onExit without the streamer's Close.
cleanup_NoClose(w) == speakerClose(w)

cleanup(w) == speakerClose(closeExisting(w))

\* The shell calls onExit once systray.Quit() has been called.
OnExit ==
    /\ quit
    /\ Commit(cleanup(World), "cleanup", 0, "-")
    /\ quit' = FALSE
    /\ pc' = "done"
    /\ UNCHANGED <<idx, clicked, soundClicked, scen>>

\* ---------------------------------------------------------------- Next
Dispatch ==
    \/ RecvPlay
    \/ RecvPause
    \/ RecvVolumeLow
    \/ RecvVolumeMedium
    \/ RecvVolumeHigh
    \/ RecvQuit
    \/ PollDefault
    \/ PollLoad
    \/ PollResume
    \/ PollNoResume

Next ==
    \/ StartLoad
    \/ StartSetVolume
    \/ StartPlay
    \/ Click
    \/ ClickSound
    \/ Dispatch
    \/ OnExit

Spec == Init /\ [][Next]_vars

\* ===================================================== observations
\* What the properties below read off a state or a step.

OpenDecoders == {h \in 1..Len(handles) : handles[h].decoded /\ handles[h].open}

\* The streams the output device is playing: the mixer's, while the device is
\* initialised; a closed or failed device plays nothing.
ActiveStreams == IF spk.init THEN spk.mixer ELSE <<>>

CallsOf(fn) == {i \in 1..Len(calls) : calls[i].fn = fn}

\* The steps on which main or the goroutine calls the named operation.
LoadStep ==
    \/ pc = "loadFirst" /\ pc' = "setVolFirst"
    \/ pc = "poll" /\ pc' = "resume"

PlayStep ==
    \/ pc = "playFirst" /\ pc' = "select"
    \/ pc = "select" /\ pc' = "poll" /\ op'.name = "play"
    \/ pc = "resume" /\ pc' # "resume" /\ sp.isPlaying

PauseStep == pc = "select" /\ pc' = "poll" /\ op'.name = "pause"

SetVolumeStep ==
    \/ pc = "setVolFirst" /\ pc' = "playFirst"
    \/ pc = "select" /\ pc' = "poll" /\ op'.name = "setVolume"

\* Between two dispatched events: the goroutine is at its select or between
\* two turns of the sound-selection poll.
BetweenEvents == pc \in {"select", "poll"}

\* ================================================================ C1
\* C1: at most one decode handle is open in every reachable state; and when a
\* loadSound whose open and decode succeed has returned, exactly one decode
\* handle is open, it is the one just opened for the path and the player
\* references it, and the handle that was current before the call was closed
\* before the new file was opened.
C1_OneOpenHandle ==
    /\ [](Cardinality(OpenDecoders) <= 1)
    /\ []((op.name = "loadSound" /\ op.ret = "nil") =>
            /\ OpenDecoders = {sp.currentStreamer}
            /\ sp.currentStreamer = Len(handles)
            /\ handles[sp.currentStreamer].path = sounds[op.arg]
            /\ \A i \in CallsOf("Close"), j \in CallsOf("Open") : i < j)
    /\ [][(LoadStep /\ op'.ret = "nil" /\ sp.currentStreamer # Nil) =>
            /\ calls'[1] = Call("Close", sp.currentStreamer, IsOpen(handles, sp.currentStreamer), 0)
            /\ calls'[2].fn = "Open"
            /\ ~IsOpen(handles', sp.currentStreamer)
            /\ sp'.currentStreamer # sp.currentStreamer]_vars

\* A successful load that replaced a handle that was open.
C1_Witness ==
    /\ op.name = "loadSound" /\ op.ret = "nil"
    /\ Len(calls) = 3 /\ calls[1].fn = "Close" /\ calls[1].live
    /\ sp.currentStreamer = 2

\* ================================================================ C2
\* C2: between two dispatched events, isPlaying implies that the output
\* device has an active stream built over the player's current decode handle
\* and that this handle is open.
C2_PlayingHasStream ==
    (BetweenEvents /\ sp.isPlaying) =>
        /\ \E i \in 1..Len(ActiveStreams) : ActiveStreams[i].h = sp.currentStreamer
        /\ IsOpen(handles, sp.currentStreamer)

\* ================================================================ C3
\* A click on sound item i was handled while isPlaying was true: the poll
\* loaded sounds[i] and, isPlaying being true, called play (op.arg = i).
SoundSwitched == op.name = "play" /\ op.arg > 0

SwitchedToIt ==
    /\ sp.currentSound = sounds[op.arg]
    /\ sp.isPlaying
    /\ IsOpen(handles, sp.currentStreamer)
    /\ handles[sp.currentStreamer].path = sounds[op.arg]
    /\ ActiveStreams = <<[h |-> sp.currentStreamer, vol |-> sp.volume]>>

VolumeKeptByPoll == [][(pc \in {"poll", "resume"}) => (sp'.volume = sp.volume)]_vars

NumCalls(cs, fn) == Cardinality({i \in 1..Len(cs) : cs[i].fn = fn})

OneClearThenOnePlay(cs, v) ==
    /\ NumCalls(cs, "Clear") = 1
    /\ NumCalls(cs, "Play") = 1
    /\ \E i, j \in 1..Len(cs) :
          i < j /\ cs[i].fn = "Clear" /\ cs[j].fn = "Play" /\ cs[j].v = v

OnlyStoresVolume ==
    /\ calls' = <<>>
    /\ sp' = [sp EXCEPT !.volume = op'.arg]
    /\ spk' = spk
    /\ handles' = handles

C5_PlayWithoutSound ==
    [][(PlayStep /\ sp.currentStreamer = Nil) =>
        /\ op'.ret = "noSound"
        /\ ~sp'.isPlaying
        /\ calls' = <<>>
        /\ sp' = sp
        /\ spk' = spk
        /\ handles' = handles]_vars

\* Play was clicked after the startup load had failed.
C5_Witness ==
    /\ op.name = "play" /\ op.ret = "noSound"
    /\ pc = "poll"
    /\ sp.currentStreamer = Nil

\* ================================================================ C6
PauseStops ==
    [][PauseStep =>
        /\ ~sp'.isPlaying
        /\ ActiveStreams' = <<>>
        /\ op'.ret = "nil"
        /\ (op.name = "pause" => (sp' = sp /\ spk' = spk /\ handles' = handles))]_vars

PauseIdempotent ==
    LET w1 == pause(World)
        w2 == pause(w1)
    IN  /\ ~w1.sp.isPlaying
        /\ w1.spk.mixer = <<>>
        /\ w2.sp = w1.sp /\ w2.spk = w1.spk /\ w2.handles = w1.handles
        /\ w1.ret = "nil" /\ w2.ret = "nil"

\* C6 as stated: once a streamer is loaded, play() sets isPlaying; pause()
\* clears it from any state; a second pause() changes nothing and errs not.
C6_Original ==
    /\ [][(PlayStep /\ sp.currentStreamer # Nil) => sp'.isPlaying]_vars
    /\ PauseStops
    /\ []PauseIdempotent

\* C6 as amended: once a streamer is loaded, play() sets isPlaying when
\* speaker.Init succeeds and leaves isPlaying as it was when Init fails; the
\* pause() part as stated.
C6_PlaySetsPauseClears ==
    /\ [][(PlayStep /\ sp.currentStreamer # Nil) =>
            IF op'.ret = "initErr"
            THEN sp'.isPlaying = sp.isPlaying /\ ~spk'.init
            ELSE sp'.isPlaying /\ spk'.init]_vars
    /\ PauseStops
    /\ []PauseIdempotent

\* Pause has just been handled and Pause is clicked again.
C6_Witness ==
    /\ op.name = "pause" /\ pc = "select" /\ "pause" \in clicked
    /\ sp.currentStreamer # Nil

\* ================================================================ C7
\* C7: a loadSound that fails returns its error to the caller, which goes on,
\* and leaves the player as it was: current sound, current streamer and
\* whether it is open, isPlaying and volume.
C7_FailedLoadChangesNothing ==
    [][(LoadStep /\ op'.ret # "nil") =>
        /\ op'.ret \in {"openErr", "decodeErr"}
        /\ pc' \in {"setVolFirst", "resume"}
        /\ sp' = sp
        /\ IsOpen(handles', sp.currentStreamer) = IsOpen(handles, sp.currentStreamer)]_vars

\* ================================================================ C8
Restarts == NumCalls(calls, "Clear")

PlayingCurrentAt(i, v) ==
    /\ sp.currentSound = sounds[i]
    /\ sp.volume = v
    /\ sp.isPlaying
    /\ ActiveStreams = <<[h |-> sp.currentStreamer, vol |-> v]>>
    /\ IsOpen(handles, sp.currentStreamer)
    /\ handles[sp.currentStreamer].path = sounds[i]

\* C8: the end-to-end scenario, every operation succeeding, observed each
\* time the dispatch loop has nothing left to do.  Startup ends with the
\* first sound playing at -2, its setVolume having restarted nothing; after
\* Low, one restart and volume -3; after a click on the second sound, the
\* second sound playing at -3; after Pause, not playing and no active stream;
\* after Quit, handle closed, speaker closed, loop ended.
C8_Scenario ==
    /\ (pc = "playFirst" => calls = <<>>)
    /\ (pc = "select" /\ scen = "started" => PlayingCurrentAt(1, VolumeStartup))
    /\ (Quiescent /\ scen = "low" =>
            PlayingCurrentAt(1, VolumeLow) /\ op.name = "setVolume" /\ Restarts = 1)
    /\ (Quiescent /\ scen = "sound" => PlayingCurrentAt(2, VolumeLow))
    /\ (Quiescent /\ scen = "pause" => ~sp.isPlaying /\ ActiveStreams = <<>>)
    /\ (scen = "quit" /\ pc = "done" => OpenDecoders = {} /\ ~spk.init)
    /\ (scen = "quit" /\ pc # "select" => pc \in {"exit", "done"})

\* ================================================================ C9
LoopRunning == pc \in {"select", "poll", "resume"}

LoopEnded == pc \in {"exit", "done"}

TornDown ==
    /\ ActiveStreams = <<>>
    /\ ~spk.init
    /\ OpenDecoders = {}
    /\ ~IsOpen(handles, sp.currentStreamer)
    /\ op.name = "cleanup"

\* C9: once the Quit click is received the loop has ended for good and the
\* only thing that still runs is onExit, which is ready to run and leaves no
\* active stream, the current handle closed and the speaker released; no
\* SoundPlayer operation is invoked after the Quit, the sound clicks pending
\* at that moment stay unreceived; and the loop ends in no other way than by
\* receiving a Quit click at its select.
C9_QuitTearsDown ==
    /\ [](pc = "exit" => ENABLED OnExit)
    /\ [](pc = "done" => TornDown)
    /\ [][LoopEnded =>
            /\ pc = "exit" /\ pc' = "done"
            /\ op'.name = "cleanup"
            /\ \A i \in 1..Len(calls') : calls'[i].fn \in {"Close", "SpkClose"}
            /\ sp' = sp
            /\ soundClicked' = soundClicked
            /\ clicked' = clicked]_vars
    /\ [][(LoopRunning /\ ~LoopRunning') =>
            /\ pc = "select" /\ pc' = "exit"
            /\ "quit" \in clicked /\ "quit" \notin clicked'
            /\ UNCHANGED <<sp, handles, spk, calls, op, soundClicked>>]_vars

\* Quit was handled while a sound was playing and a sound click was pending.
C9_Witness ==
    /\ pc = "done"
    /\ soundClicked # {}
    /\ sp.isPlaying
    /\ Len(calls) = 2 /\ calls[1].fn = "Close" /\ calls[1].live

\* =============================================================== C10
\* C10 as stated: when a successful loadSound returns, a streamer is loaded
\* and isPlaying is false, whatever the state before the call.
C10_Original ==
    (op.name = "loadSound" /\ op.ret = "nil") =>
        (sp.currentStreamer # Nil /\ ~sp.isPlaying)

\* C10 as amended: a successful loadSound replaces the streamer by a newly
\* opened one and records the path, calls nothing on the speaker, and leaves
\* isPlaying as it was: false from Idle and from Loaded-Stopped, still true
\* from Loaded-Playing.
C10_LoadKeepsIsPlaying ==
    [][(LoadStep /\ op'.ret = "nil") =>
        /\ sp'.isPlaying = sp.isPlaying
        /\ sp'.volume = sp.volume
        /\ sp'.currentStreamer # Nil
        /\ sp'.currentStreamer # sp.currentStreamer
        /\ IsOpen(handles', sp'.currentStreamer)
        /\ sp'.currentSound = sounds[op'.arg]
        /\ spk' = spk
        /\ \A i \in 1..Len(calls') : calls'[i].fn \in {"Close", "Open", "Decode"}]_vars

\* A successful load has returned with isPlaying still true.
C10_Witness ==
    /\ op.name = "loadSound" /\ op.ret = "nil"
    /\ pc = "resume"
    /\ sp.isPlaying

\* =============================================================== C11
\* The state of the player's state machine.
Machine(p) ==
    IF p.currentStreamer = Nil THEN "Idle"
    ELSE IF p.isPlaying THEN "LoadedPlaying"
    ELSE "LoadedStopped"

PlayingAt(v) ==
    /\ Machine(sp') = "LoadedPlaying"
    /\ ActiveStreams' = <<[h |-> sp.currentStreamer, vol |-> v]>>

C12_PlayAllOrNothing ==
    /\ [][PlayStep =>
            IF op'.ret = "nil"
            THEN sp'.isPlaying /\ NumCalls(calls', "Play") = 1
            ELSE /\ sp'.isPlaying = sp.isPlaying
                 /\ NumCalls(calls', "Play") = 0
                 /\ ActiveStreams' = ActiveStreams]_vars
    /\ [][(~sp.isPlaying /\ sp'.isPlaying) => (PlayStep /\ op'.ret = "nil")]_vars

\* =============================================================== C13
RestartedFromZero(cs, h) ==
    \E i, j \in 1..Len(cs) :
        i < j /\ cs[i].fn = "Seek" /\ cs[i].h = h /\ cs[j].fn = "Play" /\ cs[j].h = h

C14_InitOnlyOnce ==
    [][((PlayStep \/ SetVolumeStep) /\ spk.init) => NumCalls(calls', "Init") = 0]_vars

\* =============================================================== C15
NumPending == Cardinality(clicked) + Cardinality(soundClicked)

\* One turn of the loop starts by receiving exactly one primary click.
OnePrimaryPerTurn ==
    [][(pc = "select" /\ pc' # "select") =>
        /\ \E item \in clicked :
              /\ clicked' = clicked \ {item}
              /\ IF item = "quit"
                 THEN pc' = "exit" /\ UNCHANGED <<sp, handles, spk, calls, op>>
                 ELSE /\ pc' = "poll" /\ idx' = 1
                      /\ op'.name = IF item \in {"play", "pause"} THEN item ELSE "setVolume"
        /\ soundClicked' = soundClicked]_vars

\* The poll visits the items 1..NumSounds in order, each once, never waiting:
\* an item without a click is passed over, an item with a click has its click
\* received and its sound loaded, and play follows exactly if isPlaying.
PollInOrder ==
    /\ [](pc \in {"poll", "resume"} => idx \in 1..NumSounds)
    /\ [](pc \in {"poll", "resume"} => ENABLED Dispatch)
    /\ [][(pc = "poll" /\ <<pc, idx>>' # <<pc, idx>>) =>
            IF idx \in soundClicked
            THEN /\ pc' = "resume" /\ idx' = idx
                 /\ soundClicked' = soundClicked \ {idx}
                 /\ op'.name = "loadSound" /\ op'.arg = idx
            ELSE /\ IF idx < NumSounds THEN pc' = "poll" /\ idx' = idx + 1 ELSE pc' = "select"
                 /\ UNCHANGED <<sp, handles, spk, calls, op, soundClicked>>]_vars
    /\ [][(pc = "resume" /\ pc' # "resume") =>
            /\ IF idx < NumSounds THEN pc' = "poll" /\ idx' = idx + 1 ELSE pc' = "select"
            /\ IF sp.isPlaying
               THEN op'.name = "play" /\ op'.arg = idx
               ELSE UNCHANGED <<sp, handles, spk, calls, op>>
            /\ soundClicked' = soundClicked]_vars

\* Clicks are received nowhere else, one at a time, and a sound click only in
\* the poll of its item, so only after the turn's primary event was handled
\* (after a Pause: isPlaying is false and the load is not followed by play).
ClicksOnlyThere ==
    /\ [][clicked' # clicked => (clicked \subseteq clicked' \/ pc = "select")]_vars
    /\ [][soundClicked' # soundClicked =>
            (soundClicked \subseteq soundClicked' \/ (pc = "poll" /\ idx \in soundClicked))]_vars
    /\ [][NumPending' >= NumPending - 1]_vars
    /\ []((pc \in {"poll", "resume"} /\ op.name = "pause") => ~sp.isPlaying)

\* C15: each turn of the dispatch loop receives exactly one primary click and
\* then, unless it was Quit, polls every sound item once, in order and without
\* waiting, loading each clicked sound and then calling play if isPlaying; so a
\* sound click is acted on only after a primary event of the same turn, with
\* that event's effect applied.
C15_OnePrimaryThenPoll == OnePrimaryPerTurn /\ PollInOrder /\ ClicksOnlyThere

\* Pause has just been handled while a stream was up and the poll reaches a
\* clicked sound item.
C15_Witness ==
    /\ pc = "poll" /\ op.name = "pause"
    /\ idx = 2 /\ idx \in soundClicked
    /\ spk.init

\* =============================================================== C16
Starting == pc \in {"loadFirst", "setVolFirst", "playFirst"}

StartupStep == StartLoad \/ StartSetVolume \/ StartPlay

\* C16: the player is touched by one party at a time.  While main runs the
\* startup calls the menu does not exist yet: no click is pending and the
\* dispatch goroutine cannot take a step.  The goroutine receives at most one
\* click per step.  onExit is due only once the goroutine has left its loop,
\* so it is never enabled together with a step of the goroutine or of the
\* startup, and once it has run nothing touches the player.
C16_Serialised ==
    /\ [](Starting => (clicked = {} /\ soundClicked = {} /\ ~quit))
    /\ [](~(ENABLED StartupStep /\ ENABLED Dispatch))
    /\ [](~(ENABLED StartupStep /\ ENABLED OnExit))
    /\ [](~(ENABLED OnExit /\ ENABLED Dispatch))
    /\ [](quit => pc = "exit")
    /\ [][NumPending' >= NumPending - 1]_vars
    /\ [][pc = "done" => UNCHANGED <<sp, handles, spk>>]_vars

\* Quit was received in a turn's select while clicks were pending and a
\* sound was playing: onExit is due and the goroutine has returned.
C16_Witness ==
    /\ quit /\ pc = "exit"
    /\ soundClicked # {}
    /\ sp.isPlaying /\ IsOpen(handles, sp.currentStreamer)

\* =============================================================== C17
\* C17: volume changes in setVolume only, and after setVolume(v) it is v;
\* loadSound (succeeding or failing), play and pause leave it alone.  The
\* current sound is unset exactly until a loadSound has succeeded, changes in
\* a successful loadSound only, and is then the path that was loaded.
C17_VolumeAndSoundPersist ==
    /\ [][sp'.volume # sp.volume => SetVolumeStep]_vars
    /\ [][SetVolumeStep => sp'.volume = op'.arg]_vars
    /\ [][(LoadStep \/ PlayStep \/ PauseStep) => sp'.volume = sp.volume]_vars
    /\ [][LoadStep =>
            sp'.currentSound = IF op'.ret = "nil" THEN sounds[op'.arg] ELSE sp.currentSound]_vars
    /\ [][sp'.currentSound # sp.currentSound => (LoadStep /\ op'.ret = "nil")]_vars
    /\ [](sp.currentSound = 0 <=> sp.currentStreamer = Nil)
    /\ [](sp.currentStreamer # Nil => handles[sp.currentStreamer].path = sp.currentSound)

\* A load of the second sound has failed after the volume was set to Low:
\* the first sound is still the current one, the volume still Low.
C17_Witness ==
    /\ op.name = "loadSound" /\ op.arg = 2 /\ op.ret # "nil"
    /\ sp.currentSound = 1
    /\ sp.volume = VolumeLow

\* =============================================================== C18
\* C18: no call is made on a handle that has been closed: no Seek, no
\* submission to the speaker and no second Close.
C18_NoUseAfterClose == \A i \in 1..Len(calls) : calls[i].live

\* =============================================================== C19
\* C19: a click on a sound item is eventually followed by the load of that
\* sound with no further click of the user: the running loop is never left
\* with a sound click pending and no step it can take.
C19_NoStrandedClick == (LoopRunning /\ ~ENABLED Dispatch) => soundClicked = {}

\* =============================================================== C20
OpenResources == {h \in 1..Len(handles) : handles[h].open}

\* C20: a loadSound that fails leaves no file of its own open, and at most
\* one file or decode handle is open in any state.
C20_NoLeakedFile ==
    /\ Cardinality(OpenResources) <= 1
    /\ ((op.name = "loadSound" /\ op.ret # "nil") =>
            \A h \in OpenResources : handles[h].decoded)

====
